---- MODULE Spec2Model ----
(***************************************************************************)
(* Blue-White Calculator (src/blue_white_calculator.py).                   *)
(*                                                                         *)
(* The display text is a sequence of characters, each character a string.  *)
(* The three display-only operator signs and the blank are written by      *)
(* name, every other character as itself.  ast.parse is modelled for       *)
(* Python 3.8-3.13 on the alphabet Chars below; numbers are exact: an int  *)
(* is an integer, a float is a reduced fraction n/d with d a power of two  *)
(* (a double that the arithmetic reaches without rounding).  A computation *)
(* that leaves MaxMag/MaxDen, or that a double would round, answers        *)
(* Beyond, and the actions are not enabled on such a text.                 *)
(***************************************************************************)
EXTENDS Integers, Sequences, FiniteSets, TLC

VARIABLES buffer, cursor, expr, result, computes

vars == <<buffer, cursor, expr, result, computes>>

-----------------------------------------------------------------------------
(* Bounds *)

\* largest magnitude of an int, and of the numerator of a float
MaxMag == 40000
\* largest denominator of a float (2^14)
MaxDen == 16384

-----------------------------------------------------------------------------
(* Characters *)

MulSign == "MUL"
DivSign == "DIV"
MinusSign == "MINUS"
Blank == "SP"

Digits == {"0", "1", "2", "3", "4", "5", "6", "7", "8", "9"}
Letters == {"E", "r", "o", "T", "u", "e", "j"}
Punct == {".", "+", "-", "*", "/", "%", "(", ")", ",", "="}
Chars == Digits \cup Letters \cup Punct \cup {MulSign, DivSign, MinusSign, "^", Blank}

DigitVal(c) ==
    CASE c = "0" -> 0 [] c = "1" -> 1 [] c = "2" -> 2 [] c = "3" -> 3 [] c = "4" -> 4
      [] c = "5" -> 5 [] c = "6" -> 6 [] c = "7" -> 7 [] c = "8" -> 8 [] c = "9" -> 9

DigitChar(n) ==
    CASE n = 0 -> "0" [] n = 1 -> "1" [] n = 2 -> "2" [] n = 3 -> "3" [] n = 4 -> "4"
      [] n = 5 -> "5" [] n = 6 -> "6" [] n = 7 -> "7" [] n = 8 -> "8" [] n = 9 -> "9"

ErrorText == <<"E", "r", "r", "o", "r">>

-----------------------------------------------------------------------------
(* Values and outcomes *)

None == [k |-> "None"]

IntV(n) == [k |-> "int", n |-> n, d |-> 1]
FloatV(n, d) == [k |-> "float", n |-> n, d |-> d]
BoolV(b) == [k |-> "bool", n |-> IF b THEN 1 ELSE 0, d |-> 1]
\* a complex number with a non-zero imaginary part; its parts are not modelled
ComplexV == [k |-> "complex", n |-> 0, d |-> 1]
\* the value of a literal the evaluator does not accept (Ellipsis)
OtherV == [k |-> "other", n |-> 0, d |-> 1]

Ok(v) == [ok |-> TRUE, v |-> v, err |-> "none"]
Raise(e) == [ok |-> FALSE, v |-> None, err |-> e]
Beyond == Raise("Beyond")

IsReal(v) == v.k \in {"int", "float", "bool"}
IsIntLike(v) == v.k \in {"int", "bool"}

Abs(x) == IF x < 0 THEN -x ELSE x

RECURSIVE GCD(_, _)
GCD(a, b) == IF b = 0 THEN a ELSE GCD(b, a % b)

RECURSIVE IsPow2(_)
IsPow2(d) == d = 1 \/ (d > 1 /\ d % 2 = 0 /\ IsPow2(d \div 2))

IntRes(n) == IF Abs(n) <= MaxMag THEN Ok(IntV(n)) ELSE Beyond

\* the double n/d (d > 0), when it is exact and inside the bounds
FloatRes(n, d) ==
    LET g == GCD(Abs(n), d)
        rn == n \div g
        rd == d \div g
    IN  IF IsPow2(rd) /\ rd <= MaxDen /\ Abs(rn) <= MaxMag
        THEN Ok(FloatV(rn, rd)) ELSE Beyond

Max(a, b) == IF a >= b THEN a ELSE b

\* Python's % on integers: the sign of the result follows the divisor
PyMod(a, b) == IF b > 0 THEN a % b ELSE -((-a) % (-b))

\* |b|^e for e >= 0, or -1 once it leaves the bounds
RECURSIVE NatPow(_, _)
NatPow(b, e) ==
    IF e = 0 THEN 1
    ELSE IF b = 0 THEN 0
    ELSE IF b = 1 THEN 1
    ELSE IF e > 16 THEN -1
    ELSE LET r == NatPow(b, e - 1)
         IN  IF r = -1 \/ r > MaxMag \div b THEN -1 ELSE r * b

-----------------------------------------------------------------------------
(* The operator module functions of _ALLOWED_BINOP and _ALLOWED_UNARY *)

op_add(a, b) ==
    IF a.k = "complex" \/ b.k = "complex" THEN Beyond
    ELSE IF IsIntLike(a) /\ IsIntLike(b) THEN IntRes(a.n + b.n)
    ELSE LET D == Max(a.d, b.d)
         IN  FloatRes(a.n * (D \div a.d) + b.n * (D \div b.d), D)

op_sub(a, b) ==
    IF a.k = "complex" \/ b.k = "complex" THEN Beyond
    ELSE IF IsIntLike(a) /\ IsIntLike(b) THEN IntRes(a.n - b.n)
    ELSE LET D == Max(a.d, b.d)
         IN  FloatRes(a.n * (D \div a.d) - b.n * (D \div b.d), D)

op_mul(a, b) ==
    IF a.k = "complex" \/ b.k = "complex" THEN Beyond
    ELSE IF IsIntLike(a) /\ IsIntLike(b) THEN IntRes(a.n * b.n)
    ELSE FloatRes(a.n * b.n, a.d * b.d)

\* a true division that answers 0.0 for a zero divisor instead of raising
op_truediv_unchecked(a, b) ==
    IF a.k = "complex" \/ b.k = "complex" THEN Beyond
    ELSE IF b.n = 0 THEN Ok(FloatV(0, 1))
    ELSE IF b.n > 0 THEN FloatRes(a.n * b.d, a.d * b.n)
    ELSE FloatRes(-(a.n * b.d), a.d * (-b.n))

op_truediv(a, b) ==
    IF a.k = "complex" \/ b.k = "complex" THEN Beyond
    ELSE IF b.n = 0 THEN Raise("ZeroDivisionError")
    ELSE IF b.n > 0 THEN FloatRes(a.n * b.d, a.d * b.n)
    ELSE FloatRes(-(a.n * b.d), a.d * (-b.n))

op_mod(a, b) ==
    IF a.k = "complex" \/ b.k = "complex" THEN Raise("TypeError")
    ELSE IF b.n = 0 THEN Raise("ZeroDivisionError")
    ELSE IF IsIntLike(a) /\ IsIntLike(b) THEN IntRes(PyMod(a.n, b.n))
    ELSE LET D == Max(a.d, b.d)
         IN  FloatRes(PyMod(a.n * (D \div a.d), b.n * (D \div b.d)), D)

\* x ** k for a real x and an integer k, as an int (asInt) or a float
PowInt(x, k, asInt) ==
    LET pn == NatPow(Abs(x.n), Abs(k))
        pd == NatPow(x.d, Abs(k))
        neg == x.n < 0 /\ Abs(k) % 2 = 1
        sn == IF neg THEN -pn ELSE pn
    IN  IF pn = -1 \/ pd = -1 THEN Beyond
        ELSE IF k >= 0 THEN (IF asInt THEN IntRes(sn) ELSE FloatRes(sn, pd))
        ELSE IF neg THEN FloatRes(-pd, pn) ELSE FloatRes(pd, pn)

op_pow(a, b) ==
    IF a.k = "complex" \/ b.k = "complex" THEN Beyond
    ELSE IF b.n = 0 THEN (IF IsIntLike(a) /\ IsIntLike(b) THEN Ok(IntV(1)) ELSE Ok(FloatV(1, 1)))
    ELSE IF a.n = 0 THEN
        (IF b.n < 0 THEN Raise("ZeroDivisionError")
         ELSE IF IsIntLike(a) /\ IsIntLike(b) THEN Ok(IntV(0)) ELSE Ok(FloatV(0, 1)))
    ELSE IF b.d = 1 THEN PowInt(a, b.n, IsIntLike(a) /\ IsIntLike(b) /\ b.n >= 0)
    ELSE IF a.n < 0 THEN Ok(ComplexV)
    ELSE Beyond

op_pos(a) == IF a.k = "bool" THEN Ok(IntV(a.n)) ELSE Ok(a)

op_neg(a) ==
    IF a.k = "complex" THEN Ok(a)
    ELSE IF a.k = "float" THEN Ok(FloatV(-a.n, a.d)) ELSE Ok(IntV(-a.n))

_ALLOWED_BINOP == {"Add", "Sub", "Mult", "Div", "Mod", "Pow"}
_ALLOWED_UNARY == {"UAdd", "USub"}

\* the operator applied to (right, left)
ApplyBinOpSwapped(o, a, b) ==
    CASE o = "Add" -> op_add(b, a)
      [] o = "Sub" -> op_sub(b, a)
      [] o = "Mult" -> op_mul(b, a)
      [] o = "Div" -> op_truediv(b, a)
      [] o = "Mod" -> op_mod(b, a)
      [] o = "Pow" -> op_pow(b, a)

ApplyBinOp(o, a, b) ==
    CASE o = "Add" -> op_add(a, b)
      [] o = "Sub" -> op_sub(a, b)
      [] o = "Mult" -> op_mul(a, b)
      [] o = "Div" -> op_truediv(a, b)
      [] o = "Mod" -> op_mod(a, b)
      [] o = "Pow" -> op_pow(a, b)

ApplyUnary(o, a) ==
    CASE o = "UAdd" -> op_pos(a)
      [] o = "USub" -> op_neg(a)

-----------------------------------------------------------------------------
(* str(): the text of a value *)

RECURSIVE NatDigits(_)
NatDigits(n) ==
    IF n < 10 THEN <<DigitChar(n)>>
    ELSE Append(NatDigits(n \div 10), DigitChar(n % 10))

IntStr(n) == IF n < 0 THEN <<"-">> \o NatDigits(-n) ELSE NatDigits(n)

\* the decimal digits of r/d after the point (0 <= r < d, d a power of two)
RECURSIVE FracDigits(_, _)
FracDigits(r, d) ==
    IF r = 0 THEN <<>>
    ELSE <<DigitChar((r * 10) \div d)>> \o FracDigits((r * 10) % d, d)

RECURSIVE LeadingZeros(_)
LeadingZeros(s) ==
    IF s # <<>> /\ Head(s) = "0" THEN 1 + LeadingZeros(Tail(s)) ELSE 0

\* repr of a double: positional for 1e-4 <= |x| < 1e16, else with an exponent
float_repr(v) ==
    LET a == Abs(v.n)
        ip == a \div v.d
        fr == FracDigits(a % v.d, v.d)
        z == LeadingZeros(fr)
        sign == IF v.n < 0 THEN <<"-">> ELSE <<>>
        sig == SubSeq(fr, z + 1, Len(fr))
        e == z + 1
    IN  IF fr = <<>> THEN sign \o NatDigits(ip) \o <<".", "0">>
        ELSE IF ip = 0 /\ z >= 4
        THEN sign \o <<Head(sig)>>
                  \o (IF Len(sig) > 1 THEN <<".">> \o Tail(sig) ELSE <<>>)
                  \o <<"e", "-">>
                  \o (IF e < 10 THEN <<"0">> ELSE <<>>) \o NatDigits(e)
        ELSE sign \o NatDigits(ip) \o <<".">> \o fr

\* str of a complex: "(a+bj)"; the digits of a and b are not modelled and
\* are written 1
complex_str == <<"(", "1", "+", "1", "j", ")">>

py_str(v) ==
    CASE v.k = "int" -> IntStr(v.n)
      [] v.k = "float" -> float_repr(v)
      [] v.k = "bool" -> IF v.n = 1 THEN <<"T", "r", "u", "e">>
                         ELSE <<"F", "a", "l", "s", "e">>
      [] v.k = "complex" -> complex_str

-----------------------------------------------------------------------------
(* Numeric literals *)

\* the number a digit string writes in the given base, or -1 past the bounds
RECURSIVE DigitsVal(_, _, _)
DigitsVal(s, base, acc) ==
    IF s = <<>> THEN acc
    ELSE LET x == acc * base + DigitVal(Head(s))
         IN  IF x > MaxMag THEN -1 ELSE DigitsVal(Tail(s), base, x)

RECURSIVE StripLeft(_)
StripLeft(s) == IF s # <<>> /\ Head(s) = "0" THEN StripLeft(Tail(s)) ELSE s

RECURSIVE StripRight(_)
StripRight(s) ==
    IF s # <<>> /\ s[Len(s)] = "0" THEN StripRight(SubSeq(s, 1, Len(s) - 1)) ELSE s

\* twice the number a digit string writes, as a digit string
RECURSIVE Dbl(_, _)
Dbl(s, carry) ==
    IF s = <<>> THEN (IF carry = 1 THEN <<"1">> ELSE <<>>)
    ELSE LET x == 2 * DigitVal(s[Len(s)]) + carry
         IN  Append(Dbl(SubSeq(s, 1, Len(s) - 1), x \div 10), DigitChar(x % 10))

RECURSIVE DblN(_, _)
DblN(s, k) == IF k = 0 THEN s ELSE DblN(Dbl(s, 0), k - 1)

RECURSIVE Zeros(_)
Zeros(k) == IF k = 0 THEN <<>> ELSE <<"0">> \o Zeros(k - 1)

RECURSIVE Pow2(_)
Pow2(k) == IF k = 0 THEN 1 ELSE 2 * Pow2(k - 1)

\* the int a decimal or octal integer literal writes
IntLiteral(ds, base) ==
    LET x == DigitsVal(StripLeft(ds), base, 0)
    IN  IF x = -1 THEN Beyond ELSE Ok(IntV(x))

\* the double a literal with digits ds, fraction digits fs and exponent e writes
FloatLiteral(ds, fs, e) ==
    LET all == StripLeft(ds \o fs)
        sig == StripRight(all)
        s == (Len(fs) - e) - (Len(all) - Len(sig))
    IN  IF sig = <<>> THEN Ok(FloatV(0, 1))
        ELSE IF s <= 0 THEN
            (IF -s > 5 THEN Beyond
             ELSE LET x == DigitsVal(sig \o Zeros(-s), 10, 0)
                  IN  IF x = -1 THEN Beyond ELSE Ok(FloatV(x, 1)))
        ELSE IF s > 14 THEN Beyond
        ELSE LET dd == DblN(sig, s)
                 lo == SubSeq(dd, Len(dd) - s + 1, Len(dd))
                 hi == SubSeq(dd, 1, Len(dd) - s)
                 x == DigitsVal(StripLeft(hi), 10, 0)
             IN  IF Len(dd) <= s \/ lo # Zeros(s) \/ x = -1 THEN Beyond
                 ELSE FloatRes(x, Pow2(s))

-----------------------------------------------------------------------------
(* The tokenizer of ast.parse, on Chars *)

At(s, i) == IF i >= 1 /\ i <= Len(s) THEN s[i] ELSE "EOF"

NumberTok(v) == [t |-> "NUMBER", v |-> v, s |-> <<>>]
NameTok(s) == [t |-> "NAME", v |-> None, s |-> s]
TrueTok == [t |-> "TRUE", v |-> None, s |-> <<>>]
EllipsisTok == [t |-> "ELLIPSIS", v |-> None, s |-> <<>>]
OpTok(o) == [t |-> "OP", v |-> None, s |-> o]
EndTok == [t |-> "END", v |-> None, s |-> <<>>]

\* a literal that is an int or a float outside the bounds
BeyondV == [k |-> "beyond", n |-> 0, d |-> 1]

LexOk(tok, next) == [ok |-> TRUE, tok |-> tok, next |-> next]
LexError == [ok |-> FALSE, tok |-> EndTok, next |-> 0]

RECURSIVE SkipDigits(_, _)
SkipDigits(s, i) == IF At(s, i) \in Digits THEN SkipDigits(s, i + 1) ELSE i

RECURSIVE SkipOctal(_, _)
SkipOctal(s, i) ==
    IF At(s, i) \in {"0", "1", "2", "3", "4", "5", "6", "7"} THEN SkipOctal(s, i + 1) ELSE i

RECURSIVE SkipZeros(_, _)
SkipZeros(s, i) == IF At(s, i) = "0" THEN SkipZeros(s, i + 1) ELSE i

RECURSIVE SkipName(_, _)
SkipName(s, i) ==
    IF At(s, i) \in Letters \cup Digits THEN SkipName(s, i + 1) ELSE i

\* a number may be followed by the keyword "or", by no other name or digit
verify_end_of_number(s, j) ==
    \/ At(s, j) = "o" /\ At(s, j + 1) = "r"
    \/ At(s, j) \notin Letters \cup Digits

LiteralValue(r) == IF r.ok THEN r.v ELSE BeyondV

\* the exponent e of a float literal with digits ds and fs
FloatValue(ds, fs, negExp, es) ==
    LET ev == DigitsVal(StripLeft(es), 10, 0)
    IN  IF StripLeft(ds \o fs) = <<>> THEN FloatV(0, 1)
        ELSE IF ev = -1 THEN BeyondV
        ELSE LiteralValue(FloatLiteral(ds, fs, IF negExp THEN -ev ELSE ev))

\* a decimal literal whose integer digits are s[i..j-1]; leadZero: they start
\* with 0 and are not all 0
LexDecimal(s, i, j, leadZero) ==
    LET ds == SubSeq(s, i, j - 1)
        hasFrac == At(s, j) = "."
        k == IF hasFrac THEN SkipDigits(s, j + 1) ELSE j
        fs == IF hasFrac THEN SubSeq(s, j + 1, k - 1) ELSE <<>>
        hasExp == At(s, k) \in {"e", "E"}
        hasSign == At(s, k + 1) \in {"+", "-"}
        es == IF hasSign THEN k + 2 ELSE k + 1
        m == IF hasExp THEN SkipDigits(s, es) ELSE k
        isImag == At(s, m) = "j"
        n == IF isImag THEN m + 1 ELSE m
    IN  IF hasExp /\ At(s, es) \notin Digits THEN LexError
        ELSE IF ~verify_end_of_number(s, n) THEN LexError
        ELSE IF isImag THEN LexOk(NumberTok(ComplexV), n)
        ELSE IF hasFrac \/ hasExp
        THEN LexOk(NumberTok(FloatValue(ds, fs, At(s, k + 1) = "-",
                                        IF hasExp THEN SubSeq(s, es, m - 1) ELSE <<>>)), n)
        ELSE IF leadZero THEN LexError
        ELSE LexOk(NumberTok(LiteralValue(IntLiteral(ds, 10))), n)

LexNumber(s, i) ==
    IF s[i] = "0" /\ At(s, i + 1) = "o"
    THEN LET j == SkipOctal(s, i + 2)
         IN  IF j = i + 2 \/ At(s, j) \in Digits \/ ~verify_end_of_number(s, j)
             THEN LexError
             ELSE LexOk(NumberTok(LiteralValue(IntLiteral(SubSeq(s, i + 2, j - 1), 8))), j)
    ELSE IF s[i] = "0"
    THEN LET z == SkipZeros(s, i + 1)
         IN  LexDecimal(s, i, SkipDigits(s, z), At(s, z) \in Digits)
    ELSE IF s[i] = "." THEN LexDecimal(s, i, i, FALSE)
    ELSE LexDecimal(s, i, SkipDigits(s, i), FALSE)

LexName(s, i) ==
    LET j == SkipName(s, i)
        w == SubSeq(s, i, j - 1)
    IN  IF w = <<"T", "r", "u", "e">> THEN LexOk(TrueTok, j)
        ELSE IF w = <<"o", "r">> THEN LexOk(OpTok("or"), j)
        ELSE LexOk(NameTok(w), j)

LexOp(s, i) ==
    LET c == s[i]
        two == c \in {"*", "/"} /\ At(s, i + 1) = c
        j == IF two THEN i + 2 ELSE i + 1
    IN  IF c = "." /\ At(s, i + 1) = "." /\ At(s, i + 2) = "." THEN LexOk(EllipsisTok, i + 3)
        ELSE IF c = "=" THEN
            (IF At(s, i + 1) = "=" THEN LexOk(OpTok("=="), i + 2) ELSE LexOk(OpTok("="), i + 1))
        ELSE IF c \in {"+", "-", "*", "/", "%"} /\ At(s, j) = "="
        THEN LexOk(OpTok("aug="), j + 1)
        ELSE IF two THEN LexOk(OpTok(IF c = "*" THEN "**" ELSE "//"), j)
        ELSE LexOk(OpTok(c), j)

LexOne(s, i) ==
    IF s[i] \in Digits \/ (s[i] = "." /\ At(s, i + 1) \in Digits) THEN LexNumber(s, i)
    ELSE IF s[i] \in Letters THEN LexName(s, i)
    ELSE LexOp(s, i)

\* the tokens of s from position i on; ok is FALSE on a lexical error
RECURSIVE Tokenize(_, _)
Tokenize(s, i) ==
    IF i > Len(s) THEN [ok |-> TRUE, toks |-> <<>>]
    ELSE LET r == LexOne(s, i)
         IN  IF ~r.ok THEN [ok |-> FALSE, toks |-> <<>>]
             ELSE LET rest == Tokenize(s, r.next)
                  IN  IF ~rest.ok THEN rest
                      ELSE [ok |-> TRUE, toks |-> <<r.tok>> \o rest.toks]

-----------------------------------------------------------------------------
(* The parser of ast.parse(mode='eval'), on the tokens above *)

Constant(v) == [t |-> "Constant", value |-> v]
Name(id) == [t |-> "Name", id |-> id]
BinOp(o, l, r) == [t |-> "BinOp", op |-> o, left |-> l, right |-> r]
UnaryOp(o, x) == [t |-> "UnaryOp", op |-> o, operand |-> x]
BoolOp(vs) == [t |-> "BoolOp", values |-> vs]
Compare(l, cs) == [t |-> "Compare", left |-> l, comparators |-> cs]
Tuple(es) == [t |-> "Tuple", elts |-> es]
Call(f, as) == [t |-> "Call", func |-> f, args |-> as]
Attribute(x, a) == [t |-> "Attribute", value |-> x, attr |-> a]
Starred(x) == [t |-> "Starred", value |-> x]
Keyword(x) == [t |-> "keyword", value |-> x]
Expression(b) == [t |-> "Expression", body |-> b]

Parsed(node, i) == [ok |-> TRUE, node |-> node, i |-> i]
NoParse == [ok |-> FALSE, node |-> None, i |-> 0]

Tok(toks, i) == IF i <= Len(toks) THEN toks[i] ELSE EndTok
IsOp(toks, i, o) == Tok(toks, i).t = "OP" /\ Tok(toks, i).s = o

BinOpName(o) ==
    CASE o = "+" -> "Add" [] o = "-" -> "Sub" [] o = "*" -> "Mult" [] o = "/" -> "Div"
      [] o = "//" -> "FloorDiv" [] o = "%" -> "Mod" [] o = "**" -> "Pow"

\* One rule of the grammar applied to the tokens from position i on; x is
\* what the rule has read so far.
\*   expression:  disjunction (conjunction and inversion need other letters)
\*   comparison:  sum ('==' sum)*
\*   sum:         term (('+' | '-') term)*
\*   term:        factor (('*' | '/' | '//' | '%') factor)*
\*   factor:      ('+' | '-') factor | power
\*   power:       primary ['**' factor]
\*   primary:     atom ('.' NAME | '(' [arguments] ')')*
\*   args:        the arguments of a call up to its ')': no positional argument
\*                after a keyword or ** argument, no * argument after a **
\*   star_named:  '*' sum | expression
\*   tuple:       the elements of a parenthesised tuple after its first comma
\*   atom:        NUMBER | True | '...' | NAME | '(' ')' | group | tuple
\*   expressions: expression (',' expression)* [','], after its first comma
RECURSIVE Parse(_, _, _, _)
Parse(rule, toks, i, x) ==
    CASE rule = "expression" ->
        LET l == Parse("comparison", toks, i, <<>>)
        IN  IF ~l.ok THEN NoParse
            ELSE IF IsOp(toks, l.i, "or") THEN Parse("or_loop", toks, l.i, <<l.node>>)
            ELSE l
      [] rule = "or_loop" ->
        IF IsOp(toks, i, "or")
        THEN LET r == Parse("comparison", toks, i + 1, <<>>)
             IN  IF ~r.ok THEN NoParse ELSE Parse("or_loop", toks, r.i, Append(x, r.node))
        ELSE Parsed(BoolOp(x), i)
      [] rule = "comparison" ->
        LET l == Parse("sum", toks, i, <<>>)
        IN  IF ~l.ok THEN NoParse
            ELSE IF IsOp(toks, l.i, "==")
            THEN Parse("eq_loop", toks, l.i, [left |-> l.node, cs |-> <<>>])
            ELSE l
      [] rule = "eq_loop" ->
        IF IsOp(toks, i, "==")
        THEN LET r == Parse("sum", toks, i + 1, <<>>)
             IN  IF ~r.ok THEN NoParse
                 ELSE Parse("eq_loop", toks, r.i, [left |-> x.left, cs |-> Append(x.cs, r.node)])
        ELSE Parsed(Compare(x.left, x.cs), i)
      [] rule = "sum" ->
        LET l == Parse("term", toks, i, <<>>)
        IN  IF ~l.ok THEN NoParse ELSE Parse("sum_loop", toks, l.i, l.node)
      [] rule = "sum_loop" ->
        IF IsOp(toks, i, "+") \/ IsOp(toks, i, "-")
        THEN LET r == Parse("term", toks, i + 1, <<>>)
             IN  IF ~r.ok THEN NoParse
                 ELSE Parse("sum_loop", toks, r.i, BinOp(BinOpName(toks[i].s), x, r.node))
        ELSE Parsed(x, i)
      [] rule = "term" ->
        LET l == Parse("factor", toks, i, <<>>)
        IN  IF ~l.ok THEN NoParse ELSE Parse("term_loop", toks, l.i, l.node)
      [] rule = "term_loop" ->
        IF IsOp(toks, i, "*") \/ IsOp(toks, i, "/") \/ IsOp(toks, i, "//") \/ IsOp(toks, i, "%")
        THEN LET r == Parse("factor", toks, i + 1, <<>>)
             IN  IF ~r.ok THEN NoParse
                 ELSE Parse("term_loop", toks, r.i, BinOp(BinOpName(toks[i].s), x, r.node))
        ELSE Parsed(x, i)
      [] rule = "factor" ->
        IF IsOp(toks, i, "+") \/ IsOp(toks, i, "-")
        THEN LET r == Parse("factor", toks, i + 1, <<>>)
             IN  IF ~r.ok THEN NoParse
                 ELSE Parsed(UnaryOp(IF toks[i].s = "+" THEN "UAdd" ELSE "USub", r.node), r.i)
        ELSE Parse("power", toks, i, <<>>)
      [] rule = "power" ->
        LET l == Parse("primary", toks, i, <<>>)
        IN  IF ~l.ok THEN NoParse
            ELSE IF IsOp(toks, l.i, "**")
            THEN LET r == Parse("factor", toks, l.i + 1, <<>>)
                 IN  IF ~r.ok THEN NoParse ELSE Parsed(BinOp("Pow", l.node, r.node), r.i)
            ELSE l
      [] rule = "primary" ->
        LET a == Parse("atom", toks, i, <<>>)
        IN  IF ~a.ok THEN NoParse ELSE Parse("trailers", toks, a.i, a.node)
      [] rule = "trailers" ->
        IF IsOp(toks, i, ".")
        THEN (IF Tok(toks, i + 1).t = "NAME"
              THEN Parse("trailers", toks, i + 2, Attribute(x, toks[i + 1].s))
              ELSE NoParse)
        ELSE IF IsOp(toks, i, "(")
        THEN LET r == Parse("args", toks, i + 1,
                            [as |-> <<>>, kw |-> FALSE, dbl |-> FALSE, first |-> TRUE])
             IN  IF ~r.ok THEN NoParse ELSE Parse("trailers", toks, r.i, Call(x, r.node))
        ELSE Parsed(x, i)
      [] rule = "args" ->
        IF IsOp(toks, i, ")") THEN Parsed(x.as, i + 1)
        ELSE IF ~x.first /\ ~IsOp(toks, i, ",") THEN NoParse
        ELSE LET j == IF x.first THEN i ELSE i + 1
                 star == IsOp(toks, j, "*")
                 dstar == IsOp(toks, j, "**")
                 kw == Tok(toks, j).t = "NAME" /\ IsOp(toks, j + 1, "=")
                 r == Parse("expression", toks,
                            IF star \/ dstar THEN j + 1 ELSE IF kw THEN j + 2 ELSE j, <<>>)
                 arg == IF star THEN Starred(r.node)
                        ELSE IF dstar \/ kw THEN Keyword(r.node) ELSE r.node
             IN  IF ~x.first /\ IsOp(toks, j, ")") THEN Parsed(x.as, j + 1)
                 ELSE IF ~r.ok THEN NoParse
                 ELSE IF star /\ x.dbl THEN NoParse
                 ELSE IF ~star /\ ~dstar /\ ~kw /\ (x.kw \/ x.dbl) THEN NoParse
                 ELSE Parse("args", toks, r.i,
                            [as |-> Append(x.as, arg), kw |-> x.kw \/ kw,
                             dbl |-> x.dbl \/ dstar, first |-> FALSE])
      [] rule = "star_named" ->
        IF IsOp(toks, i, "*")
        THEN LET r == Parse("sum", toks, i + 1, <<>>)
             IN  IF ~r.ok THEN NoParse ELSE Parsed(Starred(r.node), r.i)
        ELSE Parse("expression", toks, i, <<>>)
      [] rule = "tuple" ->
        IF IsOp(toks, i, ")") THEN Parsed(Tuple(x), i + 1)
        ELSE LET r == Parse("star_named", toks, i, <<>>)
             IN  IF ~r.ok THEN NoParse
                 ELSE IF IsOp(toks, r.i, ",") THEN Parse("tuple", toks, r.i + 1, Append(x, r.node))
                 ELSE IF IsOp(toks, r.i, ")") THEN Parsed(Tuple(Append(x, r.node)), r.i + 1)
                 ELSE NoParse
      [] rule = "atom" ->
        LET tk == Tok(toks, i)
        IN  IF tk.t = "NUMBER" THEN Parsed(Constant(tk.v), i + 1)
            ELSE IF tk.t = "TRUE" THEN Parsed(Constant(BoolV(TRUE)), i + 1)
            ELSE IF tk.t = "ELLIPSIS" THEN Parsed(Constant(OtherV), i + 1)
            ELSE IF tk.t = "NAME" THEN Parsed(Name(tk.s), i + 1)
            ELSE IF IsOp(toks, i, "(")
            THEN (IF IsOp(toks, i + 1, ")") THEN Parsed(Tuple(<<>>), i + 2)
                  ELSE LET r == Parse("star_named", toks, i + 1, <<>>)
                       IN  IF ~r.ok THEN NoParse
                           ELSE IF IsOp(toks, r.i, ",")
                           THEN Parse("tuple", toks, r.i + 1, <<r.node>>)
                           ELSE IF IsOp(toks, r.i, ")") /\ r.node.t # "Starred"
                           THEN Parsed(r.node, r.i + 1)
                           ELSE NoParse)
            ELSE NoParse
      [] rule = "expressions" ->
        IF i > Len(toks) THEN Parsed(Tuple(x), i)
        ELSE LET r == Parse("expression", toks, i, <<>>)
             IN  IF ~r.ok THEN NoParse
                 ELSE IF IsOp(toks, r.i, ",")
                 THEN Parse("expressions", toks, r.i + 1, Append(x, r.node))
                 ELSE Parsed(Tuple(Append(x, r.node)), r.i)

\* ast.parse(s, mode='eval'): the tree, or a SyntaxError
ParseEnd(lx, rr) ==
    IF ~lx.ok \/ ~rr.ok \/ rr.i # Len(lx.toks) + 1 THEN [ok |-> FALSE, tree |-> None]
    ELSE [ok |-> TRUE, tree |-> Expression(rr.node)]

ParseTop(lx, r) ==
    IF r.ok /\ IsOp(lx.toks, r.i, ",")
    THEN ParseEnd(lx, Parse("expressions", lx.toks, r.i + 1, <<r.node>>))
    ELSE ParseEnd(lx, r)

ParseTokens(lx) == ParseTop(lx, Parse("expression", lx.toks, 1, <<>>))

ast_parse(s) == ParseTokens(Tokenize(s, 1))

-----------------------------------------------------------------------------
(* The evaluator *)

RECURSIVE _eval_ast(_)
_eval_ast(node) ==
    IF node.t = "Expression" THEN _eval_ast(node.body)
    ELSE IF node.t = "Constant" THEN
        (IF node.value.k \in {"int", "float", "bool"} THEN Ok(node.value)
         ELSE IF node.value.k = "beyond" THEN Beyond
         ELSE Raise("ValueError"))
    ELSE IF node.t = "BinOp" /\ node.op \in _ALLOWED_BINOP THEN
        LET left == _eval_ast(node.left)
        IN  IF ~left.ok THEN left
            ELSE LET right == _eval_ast(node.right)
                 IN  IF ~right.ok THEN right
                     ELSE ApplyBinOp(node.op, left.v, right.v)
    ELSE IF node.t = "UnaryOp" /\ node.op \in _ALLOWED_UNARY THEN
        LET operand == _eval_ast(node.operand)
        IN  IF ~operand.ok THEN operand ELSE ApplyUnary(node.op, operand.v)
    ELSE IF node.t = "Tuple" THEN Raise("ValueError")
    ELSE Raise("ValueError")

\* the replacements and the whitespace removal of safe_eval
RECURSIVE Sanitize(_)
Sanitize(s) ==
    IF s = <<>> THEN <<>>
    ELSE LET c == Head(s)
             rest == Sanitize(Tail(s))
         IN  IF c = MulSign THEN <<"*">> \o rest
             ELSE IF c = DivSign THEN <<"/">> \o rest
             ELSE IF c = MinusSign THEN <<"-">> \o rest
             ELSE IF c = "^" THEN <<"*", "*">> \o rest
             ELSE IF c = Blank THEN rest
             ELSE <<c>> \o rest

\* safe_eval without the test for an empty text: ast.parse is given ""
safe_eval_parse_empty(e) ==
    IF ~ast_parse(Sanitize(e)).ok THEN Raise("SyntaxError")
    ELSE _eval_ast(ast_parse(Sanitize(e)).tree)

safe_eval(e) ==
    LET sanitized == Sanitize(e)
        tree == ast_parse(sanitized)
    IN  IF sanitized = <<>> THEN Ok(IntV(0))
        ELSE IF ~tree.ok THEN Raise("SyntaxError")
        ELSE _eval_ast(tree.tree)

is_integer(v) == v.d = 1

\* a _calculate that shows "Error" for a ZeroDivisionError alone and a 0 for
\* any other failure
ShowResultZeroDivisionOnly(r) ==
    IF ~r.ok THEN (IF r.err = "ZeroDivisionError" THEN ErrorText ELSE <<"0">>)
    ELSE IF r.v.k = "float" /\ is_integer(r.v) THEN py_str(IntV(r.v.n))
    ELSE py_str(r.v)

\* the text _calculate shows for the outcome of safe_eval
ShowResult(r) ==
    IF ~r.ok THEN ErrorText
    ELSE IF r.v.k = "float" /\ is_integer(r.v) THEN py_str(IntV(r.v.n))
    ELSE py_str(r.v)

\* the text _calculate writes for the text it reads
_calculate(e) == ShowResult(safe_eval(e))

-----------------------------------------------------------------------------
(* The display entry and the handlers of Calculator *)

\* a character is added to a text shorter than MaxLen
MaxLen == 6
\* the number of _calculate runs of a behaviour
MaxComputes == 2

\* the texts of the buttons that insert their text, and the characters bound
\* to _type_char
InsertButtons == Digits \cup {".", "%", DivSign, MulSign, MinusSign, "+"}
BoundChars == Digits \cup {"+", "-", "*", "/", "(", ")", ".", "%", "^"}

\* the buttons and keys the model presses
PressedButtons == {"2", "0", DivSign}
PressedKeys == {"1"}

\* no _calculate is running or has just run
Idle == [ok |-> FALSE, v |-> None, err |-> "idle"]

\* tk.Entry: insert text t at index i; the insertion cursor moves with it
EntryInsert(text, cur, i, t) ==
    [text |-> SubSeq(text, 1, i) \o t \o SubSeq(text, i + 1, Len(text)),
     cur |-> IF cur >= i THEN cur + Len(t) ELSE cur]

\* tk.Entry: the textvariable is set; the cursor is kept inside the text
EntrySet(text, cur) ==
    [text |-> text, cur |-> IF cur > Len(text) THEN Len(text) ELSE cur]

\* the Entry class binding of a printable key: insert at the cursor
EntryKey(text, cur, ch) == EntryInsert(text, cur, cur, <<ch>>)

\* the Entry class binding of BackSpace: delete the character before the cursor
EntryBackSpace(text, cur) ==
    IF cur = 0 THEN [text |-> text, cur |-> cur]
    ELSE [text |-> SubSeq(text, 1, cur - 1) \o SubSeq(text, cur + 1, Len(text)),
          cur |-> cur - 1]

\* an _insert_text that starts a new text when the display shows "Error"
_insert_text_fresh(e, t) ==
    IF e.text = ErrorText THEN EntrySet(t, Len(t))
    ELSE EntryInsert(e.text, e.cur, Len(e.text), t)

_insert_text(e, t) == EntryInsert(e.text, e.cur, Len(e.text), t)

_clear(e) == EntrySet(<<>>, e.cur)

_backspace(e) ==
    IF e.text # <<>> THEN EntrySet(SubSeq(e.text, 1, Len(e.text) - 1), e.cur) ELSE e

_type_char(e, ch) ==
    IF ch # <<>> THEN EntryInsert(e.text, e.cur, Len(e.text), ch) ELSE e

Entry == [text |-> buffer, cur |-> cursor]

Show(e) == buffer' = e.text /\ cursor' = e.cur

\* a handler other than _calculate ran
Handled(e) == Show(e) /\ expr' = <<>> /\ result' = Idle /\ UNCHANGED computes

\* the value r is within the bounds of the model
InBounds(r) == r.err # "Beyond"

\* _calculate ran on the entry e, and safe_eval gave r
Evaluated(e, r) ==
    /\ computes < MaxComputes
    /\ computes' = computes + 1
    /\ InBounds(r)
    /\ expr' = e.text
    /\ result' = r
    /\ Show(EntrySet(ShowResult(r), e.cur))

Calculated(e) == Evaluated(e, safe_eval(e.text))

\* a button that inserts its text is clicked
ClickInsert(t) == Len(buffer) < MaxLen /\ Handled(_insert_text(Entry, <<t>>))

ClickClear == Handled(_clear(Entry))

ClickBackspace == Handled(_backspace(Entry))

ClickEquals == Calculated(Entry)

\* a key bound to _type_char is pressed while the display has the focus: the
\* Entry class binding runs first, the binding of the window after it
KeyChar(ch) ==
    /\ Len(buffer) + 1 < MaxLen
    /\ Handled(_type_char(EntryKey(buffer, cursor, ch), <<ch>>))

KeyBackSpace == Handled(_backspace(EntryBackSpace(buffer, cursor)))

KeyEscape == Handled(_clear(Entry))

KeyReturn == Calculated(Entry)

KeyEquals == Len(buffer) < MaxLen /\ Calculated(EntryKey(buffer, cursor, "="))

Init == buffer = <<>> /\ cursor = 0 /\ expr = <<>> /\ result = Idle /\ computes = 0

Next ==
    \/ \E t \in PressedButtons : ClickInsert(t)
    \/ ClickClear
    \/ ClickBackspace
    \/ ClickEquals
    \/ \E ch \in PressedKeys : KeyChar(ch)
    \/ KeyBackSpace
    \/ KeyEscape
    \/ KeyReturn
    \/ KeyEquals

Spec == Init /\ [][Next]_vars

-----------------------------------------------------------------------------
(* The evaluator on its own: the display starts with any text of Inputs     *)
(* (the entry is editable), and is computed, cleared and computed again.    *)

\* pieces a text is put together from
MaxChunks == 3
\* operands of an arithmetic text
MaxTerms == 3

Chunks ==
    { <<"2">>, <<"0">>, <<".", "5">>, <<"1", "4">>, <<"T", "r", "u", "e">>, <<"r">>,
      <<"(">>, <<")">>, <<",">>, <<"+">>, <<"-">>, <<"*">>, <<"/">>, <<"%">>,
      <<DivSign>>, <<"^">>, <<Blank>>, <<"(", "-", "8", ")">>, <<"(", "2", "-", "2", ")">> }

RECURSIVE Concats(_)
Concats(n) ==
    IF n = 0 THEN {<<>>}
    ELSE LET P == Concats(n - 1) IN P \cup {p \o c : p \in P, c \in Chunks}

Operands == { <<"2">>, <<"3">>, <<"-", "2">>, <<"(", "2", "-", "3", ")">> }
Operators == { <<"+">>, <<"-">>, <<"*">>, <<"/">>, <<"%">>, <<"*", "*">> }

RECURSIVE Arith(_)
Arith(n) ==
    IF n = 1 THEN Operands
    ELSE LET P == Arith(n - 1)
         IN  P \cup {p \o o \o a : p \in P, o \in Operators, a \in Operands}

\* the examples of the documentation
Examples ==
    { <<"2", "+", "2">>, <<"2", "*", "(", "3", "+", "4", ")">>, <<"7", "/", "2">>,
      <<"2", "*", "*", "1", "0">>, <<"1", "0", "%", "3">>, <<"-", "5", "+", "3">>,
      <<"5", "/", "0">>, <<"5", "%", "0">>, <<"1", ",", "2">>, <<"8", "/", "2">>,
      <<"(", "-", "8", ")", "*", "*", "0", ".", "5">>, <<"4">> }

Inputs == Concats(MaxChunks) \cup Arith(MaxTerms) \cup Examples

InitEval ==
    /\ buffer \in Inputs
    /\ cursor = Len(buffer)
    /\ expr = <<>>
    /\ result = Idle
    /\ computes = 0

NextEval == ClickEquals \/ ClickClear

SpecEval == InitEval /\ [][NextEval]_vars

-----------------------------------------------------------------------------
(* Properties.  A state with result other than Idle is the state right      *)
(* after _calculate ran on the text expr.                                   *)

Computed == result.err # "idle"

\* the syntax tree safe_eval evaluates for the text e
TreeOf(e) == ast_parse(Sanitize(e))

\* ---- C1 ----------------------------------------------------------------

\* the text of a number: a whole float is shown as the int it equals
NumberText(v) == py_str(IF v.k = "float" /\ v.d = 1 THEN IntV(v.n) ELSE v)

\* C1: after a compute the display holds the formatted value safe_eval gave
\* for the text read, and exactly "Error" whenever safe_eval failed, whatever
\* the failure was; nothing else is ever written.
C1_ResultOrError ==
    Computed =>
        LET r == safe_eval(expr)
        IN  IF r.ok THEN buffer = NumberText(r.v) ELSE buffer = ErrorText

\* a rejected name (ValueError) and a parse failure both end in "Error"
C1_Witness ==
    /\ Computed
    /\ result.err = "ValueError"
    /\ expr = <<"2", "+", "r">>
    /\ buffer = ErrorText

\* ---- C2 ----------------------------------------------------------------

\* the tree holds a node outside the grammar: a leaf that is no int or float
\* literal, an inner node that is none of the six binary and two unary
\* operators
RECURSIVE Foreign(_)
Foreign(node) ==
    CASE node.t = "Expression" -> Foreign(node.body)
      [] node.t = "Constant" -> node.value.k \notin {"int", "float", "beyond"}
      [] node.t = "BinOp" ->
            \/ node.op \notin {"Add", "Sub", "Mult", "Div", "Mod", "Pow"}
            \/ Foreign(node.left)
            \/ Foreign(node.right)
      [] node.t = "UnaryOp" ->
            node.op \notin {"UAdd", "USub"} \/ Foreign(node.operand)
      [] OTHER -> TRUE

\* C2: a text whose syntax tree holds anything outside the closed grammar
\* (a boolean literal included) makes safe_eval fail.
C2_ClosedGrammar ==
    (Computed /\ TreeOf(expr).ok /\ Foreign(TreeOf(expr).tree)) => ~result.ok

\* ---- C3 ----------------------------------------------------------------

\* the evaluation of the tree reaches a / or % node whose right operand is zero
RECURSIVE DividesByZero(_)
DividesByZero(node) ==
    CASE node.t = "Expression" -> DividesByZero(node.body)
      [] node.t = "BinOp" /\ node.op \in {"Add", "Sub", "Mult", "Div", "Mod", "Pow"} ->
            \/ DividesByZero(node.left)
            \/ /\ _eval_ast(node.left).ok
               /\ DividesByZero(node.right)
            \/ /\ node.op \in {"Div", "Mod"}
               /\ _eval_ast(node.left).ok
               /\ _eval_ast(node.right).ok
               /\ IsReal(_eval_ast(node.left).v)
               /\ IsReal(_eval_ast(node.right).v)
               /\ _eval_ast(node.right).v.n = 0
      [] node.t = "UnaryOp" /\ node.op \in {"UAdd", "USub"} ->
            DividesByZero(node.operand)
      [] OTHER -> FALSE

RECURSIVE FractionalPowerOfNegative(_)
FractionalPowerOfNegative(node) ==
    CASE node.t = "Expression" -> FractionalPowerOfNegative(node.body)
      [] node.t = "BinOp" /\ node.op \in {"Add", "Sub", "Mult", "Div", "Mod", "Pow"} ->
            \/ FractionalPowerOfNegative(node.left)
            \/ /\ _eval_ast(node.left).ok
               /\ FractionalPowerOfNegative(node.right)
            \/ /\ node.op = "Pow"
               /\ _eval_ast(node.left).ok
               /\ _eval_ast(node.right).ok
               /\ IsReal(_eval_ast(node.left).v)
               /\ IsReal(_eval_ast(node.right).v)
               /\ _eval_ast(node.left).v.n < 0
               /\ _eval_ast(node.right).v.d # 1
      [] node.t = "UnaryOp" /\ node.op \in {"UAdd", "USub"} ->
            FractionalPowerOfNegative(node.operand)
      [] OTHER -> FALSE

\* C4: a negative base raised to a fractional exponent fails the call, and a
\* value safe_eval returns is an int (bool is a subclass of int) or a float.
C4_RealResult ==
    Computed =>
        /\ (TreeOf(expr).ok /\ FractionalPowerOfNegative(TreeOf(expr).tree))
              => ~result.ok
        /\ result.ok => result.v.k \in {"int", "bool", "float"}

\* ---- C5 ----------------------------------------------------------------
(* The reference arithmetic: the value of a text over the digits, the      *)
(* parentheses and + - * / % **, as an exact fraction n/d, found by         *)
(* splitting the text at its loosest operator.                              *)

Undefined == [def |-> FALSE, n |-> 0, d |-> 1]

\* the fraction n/d (d > 0) in lowest terms
Fraction(n, d) ==
    LET g == GCD(Abs(n), d)
    IN  IF Abs(n \div g) <= MaxMag /\ d \div g <= MaxDen
        THEN [def |-> TRUE, n |-> n \div g, d |-> d \div g] ELSE Undefined

RefAdd(a, b) == Fraction(a.n * b.d + b.n * a.d, a.d * b.d)
RefSub(a, b) == Fraction(a.n * b.d - b.n * a.d, a.d * b.d)
RefMul(a, b) == Fraction(a.n * b.n, a.d * b.d)
RefDiv(a, b) ==
    IF b.n = 0 THEN Undefined
    ELSE IF b.n > 0 THEN Fraction(a.n * b.d, a.d * b.n)
    ELSE Fraction(-(a.n * b.d), a.d * (-b.n))

\* a - b * floor(a / b)
RefMod(a, b) ==
    IF b.n = 0 THEN Undefined
    ELSE LET A == a.n * b.d
             B == b.n * a.d
             q == IF B > 0 THEN A \div B ELSE (-A) \div (-B)
         IN  Fraction(A - q * B, a.d * b.d)

\* b^e for b >= 0 and e >= 0, or -1 above MaxMag
RECURSIVE RefNatPow(_, _)
RefNatPow(b, e) ==
    IF e = 0 THEN 1
    ELSE IF b <= 1 THEN b
    ELSE IF e > 16 THEN -1
    ELSE LET r == RefNatPow(b, e - 1)
         IN  IF r = -1 \/ r * b > MaxMag THEN -1 ELSE r * b

\* a to the integer power b
RefPow(a, b) ==
    IF b.d # 1 \/ (b.n < 0 /\ a.n = 0) THEN Undefined
    ELSE LET e == Abs(b.n)
             pn == RefNatPow(Abs(a.n), e)
             pd == RefNatPow(a.d, e)
             sn == IF a.n < 0 /\ e % 2 = 1 THEN -pn ELSE pn
         IN  IF pn = -1 \/ pd = -1 THEN Undefined
             ELSE IF b.n >= 0 THEN Fraction(sn, pd)
             ELSE IF sn > 0 THEN Fraction(pd, sn)
             ELSE Fraction(-pd, -sn)

RefApply(o, a, b) ==
    IF ~a.def \/ ~b.def THEN Undefined
    ELSE CASE o = "+" -> RefAdd(a, b)
           [] o = "-" -> RefSub(a, b)
           [] o = "*" -> RefMul(a, b)
           [] o = "/" -> RefDiv(a, b)
           [] o = "%" -> RefMod(a, b)
           [] o = "**" -> RefPow(a, b)

\* the number of parentheses open before position i of s
RECURSIVE Depth(_, _)
Depth(s, i) ==
    IF i <= 1 THEN 0
    ELSE Depth(s, i - 1)
         + (IF s[i - 1] = "(" THEN 1 ELSE IF s[i - 1] = ")" THEN -1 ELSE 0)

RECURSIVE RefNat(_)
RefNat(s) == IF s = <<>> THEN 0 ELSE 10 * RefNat(SubSeq(s, 1, Len(s) - 1)) + DigitVal(s[Len(s)])

SetMax(S) == CHOOSE x \in S : \A y \in S : y <= x
SetMin(S) == CHOOSE x \in S : \A y \in S : x <= y

\* an operator sign at position i of s that follows an operand, outside every
\* parenthesis
Binary(s, i) == Depth(s, i) = 0 /\ s[i - 1] \in Digits \cup {")"}

RECURSIVE RefValue(_)
RefValue(s) ==
    LET n == Len(s)
        sums == {i \in 2..(n - 1) : s[i] \in {"+", "-"} /\ Binary(s, i)}
        terms == {i \in 2..(n - 1) :
                    /\ s[i] \in {"*", "/", "%"}
                    /\ Binary(s, i)
                    /\ s[i + 1] # "*"}
        powers == {i \in 2..(n - 2) : s[i] = "*" /\ s[i + 1] = "*" /\ Binary(s, i)}
    IN  IF n = 0 THEN Undefined
        ELSE IF sums # {} THEN
            LET i == SetMax(sums)
            IN  RefApply(s[i], RefValue(SubSeq(s, 1, i - 1)), RefValue(SubSeq(s, i + 1, n)))
        ELSE IF terms # {} THEN
            LET i == SetMax(terms)
            IN  RefApply(s[i], RefValue(SubSeq(s, 1, i - 1)), RefValue(SubSeq(s, i + 1, n)))
        ELSE IF s[1] = "+" THEN RefValue(Tail(s))
        ELSE IF s[1] = "-" THEN RefApply("-", Fraction(0, 1), RefValue(Tail(s)))
        ELSE IF powers # {} THEN
            LET i == SetMin(powers)
            IN  RefApply("**", RefValue(SubSeq(s, 1, i - 1)), RefValue(SubSeq(s, i + 2, n)))
        ELSE IF \A i \in 1..n : s[i] \in Digits THEN
            (IF n <= 5 /\ (n = 1 \/ s[1] # "0" \/ \A i \in 1..n : s[i] = "0")
             THEN Fraction(RefNat(s), 1) ELSE Undefined)
        ELSE IF /\ n >= 3
                /\ s[1] = "("
                /\ s[n] = ")"
                /\ \A j \in 2..n : Depth(s, j) >= 1
                /\ Depth(s, n + 1) = 0
            THEN RefValue(SubSeq(s, 2, n - 1))
        ELSE Undefined

\* a text of digits, parentheses and the signs of the six operators
Arithmetic(s) == \A i \in 1..Len(s) : s[i] \in Digits \cup {"+", "-", "*", "/", "%", "(", ")"}

\* C5: on a well-formed text of integer literals, parentheses, unary signs and
\* the six binary operators, safe_eval returns the value of the reference
\* arithmetic (precedence, associativity, operand order, true division).
C5_ReferenceArithmetic ==
    (Computed /\ Arithmetic(expr) /\ RefValue(expr).def) =>
        /\ result.ok
        /\ IsReal(result.v)
        /\ result.v.n * RefValue(expr).d = RefValue(expr).n * result.v.d

\* 2-3*2 is 2-(3*2), and 7/2 is 3.5
C5_Witness ==
    /\ Computed
    /\ expr = <<"2", "-", "3", "*", "2">>
    /\ RefValue(expr) = Fraction(-4, 1)
    /\ buffer = <<"-", "4">>

\* ---- C6 ----------------------------------------------------------------

DigitText(s) == s # <<>> /\ \A i \in 1..Len(s) : s[i] \in Digits

Unsigned(s) == IF s # <<>> /\ s[1] = "-" THEN Tail(s) ELSE s

\* digits
IntegerText(s) == DigitText(Unsigned(s))

\* digits, a point, digits
DecimalText(s) ==
    \E p \in 2..(Len(Unsigned(s)) - 1) :
        /\ Unsigned(s)[p] = "."
        /\ DigitText(SubSeq(Unsigned(s), 1, p - 1))
        /\ DigitText(SubSeq(Unsigned(s), p + 1, Len(Unsigned(s))))

\* C6: after a successful compute of an int or a float the display holds a
\* canonical numeric text: digits alone for a whole number, digits with a
\* decimal point for any other number.
C6_CanonicalText ==
    (Computed /\ result.ok /\ result.v.k \in {"int", "float"}) =>
        IF result.v.d = 1 THEN IntegerText(buffer) ELSE DecimalText(buffer)

\* ---- C7 ----------------------------------------------------------------

\* C7: a compute right after a successful compute succeeds again and leaves
\* the display as it is.
C7_Idempotent ==
    [][(Computed /\ result.ok /\ computes' = computes + 1)
          => (result'.ok /\ buffer' = buffer)]_vars

\* ---- C8 ----------------------------------------------------------------

\* C8: a text that is empty once the blanks are removed evaluates to the int
\* 0, and the compute writes "0"; so does a compute right after a clear.
C8_EmptyIsZero ==
    (Computed /\ \A i \in 1..Len(expr) : expr[i] = Blank) =>
        (result.ok /\ result.v = IntV(0) /\ buffer = <<"0">>)

\* the second compute read the display a clear had emptied
C8_Witness ==
    /\ Computed
    /\ computes = 2
    /\ expr = <<>>
    /\ buffer = <<"0">>

\* ---- C9 ----------------------------------------------------------------

\* C9: every interaction is one operation on the text: one character
\* appended, the last character removed, the text cleared, or one compute of
\* the text as it was.
C9_OneOperation ==
    [][\/ /\ computes' = computes
          /\ \/ \E c \in Chars : buffer' = Append(buffer, c)
             \/ buffer' = SubSeq(buffer, 1, Len(buffer) - 1)
             \/ buffer' = <<>>
       \/ /\ computes' = computes + 1
          /\ expr' = buffer]_vars

\* ---- C10 ---------------------------------------------------------------

\* the text begins with the first letter of the marker
Marked(b) == b # <<>> /\ b[1] = "E"

\* C10: while the text begins with what is left of "Error", a button appends
\* its character after it, the backspace button leaves it marked unless it
\* removes the last character, and a compute writes "Error" again.
C10_StickyError ==
    [][Marked(buffer) =>
          /\ \A t \in InsertButtons :
                ClickInsert(t) => (buffer' = buffer \o <<t>> /\ Marked(buffer'))
          /\ ClickBackspace => (buffer' = <<>> \/ Marked(buffer'))
          /\ (ClickEquals \/ KeyReturn) => (~result'.ok /\ buffer' = ErrorText)]_vars

\* a compute of "Erro" followed by an appended 2 wrote "Error" again
C10_Witness ==
    /\ Computed
    /\ computes = 2
    /\ expr = <<"E", "r", "r", "o", "2">>
    /\ buffer = ErrorText

====
